---- MODULE Spec2Model ----
(***************************************************************************)
(* A model of scripts/process_pdfs.py: the text normaliser                 *)
(* clean_garbage_text, the question parser parse_forum_ias, the manifest   *)
(* writer update_manifest and the driver main.                             *)
(*                                                                         *)
(* Text is a sequence of lexemes.  A lexeme is either one character        *)
(* ("\n", " ", ")", "a", ...) or a word that the program's regular         *)
(* expressions treat as a unit ("Ans", "Exp", "Option", a literal piece of *)
(* the address block, ...).  No lexeme begins or ends with white space,    *)
(* and the filler lexemes ("x", "p", "q", "r", "s") stand for text that    *)
(* takes part in no pattern.  Every regular expression of the source is    *)
(* translated to an operator over lexeme sequences; positions are 1-based  *)
(* and a match is reported by the position just after it (0: no match).    *)
(***************************************************************************)
EXTENDS Naturals, Integers, Sequences, FiniteSets

VARIABLES
    pc,               \* position of the running operation
    text,             \* the input text of clean_garbage_text / parse_forum_ias
    once,             \* clean_garbage_text(text)
    twice,            \* clean_garbage_text(clean_garbage_text(text))
    faults,           \* block positions whose try body raised
    questions,        \* the list parse_forum_ias returned
    manifest,         \* tests/test_manifest.json
    prevManifest,     \* the manifest before the last update_manifest call
    history,          \* the arguments of the update_manifest calls so far
    uploadDir,        \* does uploads/ exist
    uploads,          \* the files in uploads/
    content,          \* the text extract_text_from_pdf gives for each file
    listing,          \* main: the part of os.listdir(UPLOAD_DIR) not yet visited
    cur,              \* main: the file being processed
    curQuestions,     \* main: its questions
    outFiles,         \* the files in tests/ (name -> questions)
    skipped,          \* main: the PDFs whose question list was empty
    files_processed   \* main's counter

vars == <<pc, text, once, twice, faults, questions, manifest, prevManifest,
          history, uploadDir, uploads, content, listing, cur,
          curQuestions, outFiles, skipped, files_processed>>

cleanVars    == <<once, twice>>
parseVars    == <<faults, questions>>
manifestVars == <<manifest, prevManifest, history>>
mainVars     == <<uploadDir, uploads, content, listing, cur, curQuestions,
                  outFiles, skipped, files_processed>>

(***************************************************************************)
(* Bounds of the model.                                                    *)
(***************************************************************************)
MaxCleanFrags == 4
MaxBodyFrags == 4
MaxBlockFrags == 5
MaxCalls == 4

(***************************************************************************)
(* Lexemes.                                                                *)
(***************************************************************************)
NL == "\n"
SP == " "

\* \s of the re module and the characters str.strip() removes.
IsWs(c) == c \in {NL, SP}

\* \d
IsDigit(c) == c \in {"1", "2"}

\* str.lower() / re.IGNORECASE: the lower-case form of a lexeme.
Lower(c) ==
    CASE c = "A" -> "a" [] c = "B" -> "b" [] c = "C" -> "c" [] c = "D" -> "d"
      [] c \in {"Ans", "ANS"} -> "ans"
      [] c \in {"Answer", "ANSWER"} -> "answer"
      [] c \in {"Exp", "EXP"} -> "exp"
      [] c \in {"Explanation", "EXPLANATION"} -> "explanation"
      [] c \in {"Option", "OPTION"} -> "option"
      [] c = "Is The Correct Answer" -> "is the correct answer"
      [] c = "HELPDESK@FORUMIAS.ACADEMY" -> "helpdesk@forumias.academy"
      [] c = "Q" -> "q"
      [] OTHER -> c

\* [a-dA-D]
IsLetterAD(c) == c \in {"a", "b", "c", "d", "A", "B", "C", "D"}

\* The position of the first lexeme at or after i that is not white space
\* (Len(s) + 1 when there is none): what a greedy \s* consumes.
RECURSIVE SkipWs(_, _)
SkipWs(s, i) ==
    IF i <= Len(s) /\ IsWs(s[i]) THEN SkipWs(s, i + 1) ELSE i

\* What a greedy \d* consumes.
RECURSIVE SkipDigits(_, _)
SkipDigits(s, i) ==
    IF i <= Len(s) /\ IsDigit(s[i]) THEN SkipDigits(s, i + 1) ELSE i

\* The position of the last lexeme at or before i that is not white space.
RECURSIVE SkipWsBack(_, _)
SkipWsBack(s, i) ==
    IF i >= 1 /\ IsWs(s[i]) THEN SkipWsBack(s, i - 1) ELSE i

\* s[i:j] of Python with 1-based i and exclusive j.
Slice(s, i, j) == SubSeq(s, i, j - 1)

\* str.strip()
Strip(s) == SubSeq(s, SkipWs(s, 1), SkipWsBack(s, Len(s)))

\* All concatenations of at most n fragments of F: the input texts.
RECURSIVE DocsUpTo(_, _)
DocsUpTo(F, n) ==
    IF n = 0 THEN {<<>>}
    ELSE LET D == DocsUpTo(F, n - 1) IN D \cup {d \o f : d \in D, f \in F}

(***************************************************************************)
(* clean_garbage_text                                                      *)
(***************************************************************************)
\* The seven literals of address_parts.  The first is cut at one of its
\* spaces and the second at its \s*, so that a text can hold a piece of one.
P1Head == "Forum Learning Centre : Delhi - Plot No. 36, 4th Floor (Above"
P1Tail == "Kalyan Jewellers), Pusa Road, Karol Bagh, New Delhi - 110005"
P2Head == "Patna - 2nd floor, AG Palace, E Boring"
P2Tail == "Canal Road, Patna, Bihar 800001"
P3 == "Hyderabad - 1st & 2nd Floor, SM Plaza, RTC X Rd, Indira Park Road, Jawahar Nagar, Hyderabad, Telangana 500020"
P4 == "9311740400, 9311740900"
P5 == "https://academy.forumias.com"
P6 == "admissions@forumias.academy"
P7 == "helpdesk@forumias.academy"

\* The first character of a lexeme, for a character class that is followed
\* by anything: [a-dA-D] after "Ans)" also matches the "A" of "Answer".
FirstChar(c) ==
    CASE c \in {"Ans", "ANS", "Answer", "ANSWER"} -> "A"
      [] c \in {"ans", "answer"} -> "a"
      [] c \in {"Exp", "EXP", "Explanation", "EXPLANATION"} -> "E"
      [] c \in {"exp", "explanation"} -> "e"
      [] c \in {"Option", "OPTION"} -> "O"
      [] c = "option" -> "o"
      [] c = "is the correct answer" -> "i"
      [] c = "Is The Correct Answer" -> "I"
      [] c = "SFG" -> "S"
      [] c = "2026" -> "2"
      [] c = P1Head -> "F" [] c = P1Tail -> "K" [] c = P2Head -> "P"
      [] c = P2Tail -> "C" [] c = P3 -> "H" [] c = P4 -> "9"
      [] c = P5 -> "h" [] c = P6 -> "a" [] c = P7 -> "h"
      [] c = "HELPDESK@FORUMIAS.ACADEMY" -> "H"
      [] OTHER -> c

\* address_parts: each part is a sequence of items, an item being a lexeme
\* to be found as it is (ignoring case) or "\\s*".
address_parts ==
    << <<P1Head, SP, P1Tail>>,
       <<P2Head, "\\s*", P2Tail>>,
       <<P3>>, <<P4>>, <<P5>>, <<P6>>, <<P7>> >>

\* One part matched at position i of s, item k onwards: the position after
\* the match, or 0.
RECURSIVE MatchPart(_, _, _, _)
MatchPart(s, i, part, k) ==
    IF k > Len(part) THEN i
    ELSE IF part[k] = "\\s*" THEN MatchPart(s, SkipWs(s, i), part, k + 1)
    ELSE IF i <= Len(s) /\ Lower(s[i]) = Lower(part[k])
         THEN MatchPart(s, i + 1, part, k + 1)
    ELSE 0

\* The lazy .*? before a part: the first position at or after i where the
\* part matches, as the position after that match, or 0.
RECURSIVE FindPart(_, _, _)
FindPart(s, i, part) ==
    IF i > Len(s) THEN 0
    ELSE LET e == MatchPart(s, i, part, 1)
         IN IF e # 0 THEN e ELSE FindPart(s, i + 1, part)

\* address_regex from part k on, the parts before it matched up to i.
RECURSIVE MatchRestOfAddress(_, _, _)
MatchRestOfAddress(s, i, k) ==
    IF k > Len(address_parts) THEN i
    ELSE LET e == FindPart(s, i, address_parts[k])
         IN IF e = 0 THEN 0 ELSE MatchRestOfAddress(s, e, k + 1)

\* address_regex matched at position i: the position after the match, or 0.
MatchAddress(s, i) ==
    LET e == MatchPart(s, i, address_parts[1], 1)
    IN IF e = 0 THEN 0 ELSE MatchRestOfAddress(s, e, 2)

\* re.sub(address_regex, '', text): every match, found left to right in the
\* text as it was given, is removed.
RECURSIVE RemoveAddress(_, _)
RemoveAddress(s, i) ==
    IF i > Len(s) THEN <<>>
    ELSE LET e == MatchAddress(s, i)
         IN IF e # 0 THEN RemoveAddress(s, e)
            ELSE <<s[i]>> \o RemoveAddress(s, i + 1)

\* ^SFG 2026 under (?m): "SFG 2026" at the start of the text or after "\n".
PromoAt(s, i) ==
    /\ i = 1 \/ s[i - 1] = NL
    /\ i + 2 <= Len(s)
    /\ s[i] = "SFG" /\ s[i + 1] = SP /\ s[i + 2] = "2026"

\* The position of the first "\n" at or after i (Len(s) + 1 when none).
RECURSIVE EndOfLine(_, _)
EndOfLine(s, i) ==
    IF i <= Len(s) /\ s[i] # NL THEN EndOfLine(s, i + 1) ELSE i

\* re.sub(r'(?m)^SFG 2026.*$', '', text)
RECURSIVE RemovePromoLines(_, _)
RemovePromoLines(s, i) ==
    IF i > Len(s) THEN <<>>
    ELSE IF PromoAt(s, i) THEN RemovePromoLines(s, EndOfLine(s, i))
    ELSE <<s[i]>> \o RemovePromoLines(s, i + 1)

\* The position after the run of "\n" that starts at i.
RECURSIVE SkipNewlines(_, _)
SkipNewlines(s, i) ==
    IF i <= Len(s) /\ s[i] = NL THEN SkipNewlines(s, i + 1) ELSE i

\* re.sub(r'\n{3,}', '\n\n', text)
RECURSIVE CollapseNewlines(_, _)
CollapseNewlines(s, i) ==
    IF i > Len(s) THEN <<>>
    ELSE LET e == SkipNewlines(s, i)
         IN IF e - i >= 3 THEN <<NL, NL>> \o CollapseNewlines(s, e)
            ELSE IF e > i THEN Slice(s, i, e) \o CollapseNewlines(s, e)
            ELSE <<s[i]>> \o CollapseNewlines(s, i + 1)

clean_garbage_text(t) ==
    LET t1 == RemoveAddress(t, 1)
        t2 == RemovePromoLines(t1, 1)
    IN CollapseNewlines(t2, 1)

(***************************************************************************)
(* parse_forum_ias                                                         *)
(***************************************************************************)
ICA == "is the correct answer"

\* [\)\:] and [\)\.]
IsTagDelim(c) == c \in {")", ":"}
IsLabelDelim(c) == c \in {")", "."}

\* \nQ\.\s*\d+[\)\.] matched at position i: the position after it, or 0.
MatchQuestionMarker(s, i) ==
    IF i + 2 <= Len(s) /\ s[i] = NL /\ s[i + 1] = "Q" /\ s[i + 2] = "."
    THEN LET j == SkipWs(s, i + 3)
             k == SkipDigits(s, j)
         IN IF k > j /\ k <= Len(s) /\ IsLabelDelim(s[k]) THEN k + 1 ELSE 0
    ELSE 0

\* re.split(r'\nQ\.\s*\d+[\)\.]', text): the pieces between the matches,
\* p being where the current piece starts and i the position examined.
RECURSIVE SplitAt(_, _, _)
SplitAt(s, p, i) ==
    IF i > Len(s) THEN << Slice(s, p, Len(s) + 1) >>
    ELSE LET e == MatchQuestionMarker(s, i)
         IN IF e # 0 THEN << Slice(s, p, i) >> \o SplitAt(s, e, e)
            ELSE SplitAt(s, p, i + 1)

\* blocks = re.split(...); blocks = blocks[1:]
SplitBlocks(t) == Tail(SplitAt(t, 1, 1))

\* (?:Exp|Explanation)[\)\:] at position i, ignoring case.
ExpTagAt(b, i) ==
    /\ i + 1 <= Len(b)
    /\ Lower(b[i]) \in {"exp", "explanation"}
    /\ IsTagDelim(b[i + 1])

\* re.search(r'(?:Exp|Explanation)[\)\:]\s*(.*)', block): the position where
\* group 1 starts, for the leftmost match at or after i, or 0.
RECURSIVE SearchExp(_, _)
SearchExp(b, i) ==
    IF i > Len(b) THEN 0
    ELSE IF ExpTagAt(b, i) THEN SkipWs(b, i + 2)
    ELSE SearchExp(b, i + 1)

\* explanation = exp_match.group(1).strip() if exp_match else ""
ExtractExplanation(b) ==
    LET g == SearchExp(b, 1)
    IN IF g = 0 THEN <<>> ELSE Strip(Slice(b, g, Len(b) + 1))

\* ([a-dA-D])\s+is\s+the\s+correct\s+answer at position p, ignoring case:
\* the letter, or "" when it does not match.
StatementAt(e, p) ==
    IF p <= Len(e) /\ IsLetterAD(e[p])
    THEN LET q == SkipWs(e, p + 1)
         IN IF q > p + 1 /\ q <= Len(e) /\ Lower(e[q]) = ICA THEN e[p] ELSE ""
    ELSE ""

\* re.match(r'(?:Option\s*)?([a-dA-D])\s+is\s+the\s+correct\s+answer',
\* explanation, re.IGNORECASE): group 1, or "" when there is no match.  The
\* optional group is tried first and given up when the rest fails after it.
MatchExpAnswer(e) ==
    LET withOption == IF Len(e) >= 1 /\ Lower(e[1]) = "option"
                      THEN StatementAt(e, SkipWs(e, 2)) ELSE ""
    IN IF withOption # "" THEN withOption ELSE StatementAt(e, 1)

\* (?:Ans|Answer)[\)\:]\s*([a-dA-D]) at position i, ignoring case: group 1,
\* or "".
AnsTagAt(b, i) ==
    IF i + 1 <= Len(b) /\ Lower(b[i]) \in {"ans", "answer"} /\ IsTagDelim(b[i + 1])
    THEN LET j == SkipWs(b, i + 2)
         IN IF j <= Len(b) /\ IsLetterAD(FirstChar(b[j]))
            THEN FirstChar(b[j]) ELSE ""
    ELSE ""

\* re.search(r'(?:Ans|Answer)[\)\:]\s*([a-dA-D])', block, re.IGNORECASE):
\* group 1 of the leftmost match at or after i, or "".
RECURSIVE SearchAns(_, _)
SearchAns(b, i) ==
    IF i > Len(b) THEN ""
    ELSE IF AnsTagAt(b, i) # "" THEN AnsTagAt(b, i)
    ELSE SearchAns(b, i + 1)

\* A mapping that counts the letters from 1.
mappingFromOne(ch) ==
    CASE ch = "a" -> 1 [] ch = "b" -> 2 [] ch = "c" -> 3 [] ch = "d" -> 4
      [] OTHER -> -1

\* mapping = {'a': 0, 'b': 1, 'c': 2, 'd': 3}; mapping.get(correct_char, -1)
mapping(ch) ==
    CASE ch = "a" -> 0 [] ch = "b" -> 1 [] ch = "c" -> 2 [] ch = "d" -> 3
      [] OTHER -> -1

\* The two strategies in the other order: the answer tag first.
ResolveCharTagFirst(b, explanation) ==
    LET ans == SearchAns(b, 1)
    IN IF ans # "" THEN Lower(ans)
       ELSE LET exp_ans == MatchExpAnswer(explanation)
            IN IF exp_ans # "" THEN Lower(exp_ans) ELSE ""

\* Strategy A, then strategy B: correct_char, "" standing for None.
ResolveChar(b, explanation) ==
    LET exp_ans == MatchExpAnswer(explanation)
    IN IF exp_ans # "" THEN Lower(exp_ans)
       ELSE LET ans == SearchAns(b, 1)
            IN IF ans # "" THEN Lower(ans) ELSE ""

\* correct_idx
ResolveAnswer(b, explanation) ==
    LET correct_char == ResolveChar(b, explanation)
    IN IF correct_char # "" THEN mapping(correct_char) ELSE -1

\* The start of the options sought with [a-dA-D] in place of a.
OptStartAnyLetterAt(b, i) ==
    /\ i <= Len(b) /\ b[i] = NL
    /\ LET j == SkipWs(b, i + 1)
       IN j + 1 <= Len(b) /\ IsLetterAD(b[j]) /\ IsLabelDelim(b[j + 1])

\* \n\s*a[\)\.] at position i.
OptStartAt(b, i) ==
    /\ i <= Len(b) /\ b[i] = NL
    /\ LET j == SkipWs(b, i + 1)
       IN j + 1 <= Len(b) /\ b[j] = "a" /\ IsLabelDelim(b[j + 1])

\* re.search(r'\n\s*a[\)\.]', block): opt_start.start() for the leftmost
\* match at or after i, or 0.
RECURSIVE SearchOptStart(_, _)
SearchOptStart(b, i) ==
    IF i > Len(b) THEN 0
    ELSE IF OptStartAt(b, i) THEN i
    ELSE SearchOptStart(b, i + 1)

\* \n\s*(?:Ans|Exp) at position i, ignoring case: a lexeme that begins with
\* "Ans" or "Exp" follows the line break and the white space after it.
MarkerAt(b, i) ==
    /\ i <= Len(b) /\ b[i] = NL
    /\ LET j == SkipWs(b, i + 1)
       IN j <= Len(b) /\ Lower(b[j]) \in {"ans", "answer", "exp", "explanation"}

\* re.search(r'\n\s*(?:Ans|Exp)', block[opt_start.start():]): the start of
\* the leftmost match at or after i, or 0.
RECURSIVE SearchMarker(_, _)
SearchMarker(b, i) ==
    IF i > Len(b) THEN 0
    ELSE IF MarkerAt(b, i) THEN i
    ELSE SearchMarker(b, i + 1)

\* (?:^|\n)\s*([a-dA-D])[\)\.] matched at position i of opts_block: the
\* position after the match, or 0.  ^ holds at position 1 only.
LabelAt(o, i) ==
    LET afterAnchor(j) ==
            LET k == SkipWs(o, j)
            IN IF k + 1 <= Len(o) /\ IsLetterAD(o[k]) /\ IsLabelDelim(o[k + 1])
               THEN k + 2 ELSE 0
        caret == IF i = 1 THEN afterAnchor(1) ELSE 0
    IN IF caret # 0 THEN caret
       ELSE IF i <= Len(o) /\ o[i] = NL THEN afterAnchor(i + 1)
       ELSE 0

\* list(re.finditer(...)): the matches at or after i, left to right and not
\* overlapping, each as <<start, end>>.
RECURSIVE FindLabels(_, _)
FindLabels(o, i) ==
    IF i > Len(o) THEN <<>>
    ELSE LET e == LabelAt(o, i)
         IN IF e # 0 THEN << <<i, e>> >> \o FindLabels(o, e)
            ELSE FindLabels(o, i + 1)

\* The loop over opt_matches: options.append(opts_block[start:end].strip())
OptionTexts(o) ==
    LET opt_matches == FindLabels(o, 1)
    IN [i \in 1..Len(opt_matches) |->
          LET start == opt_matches[i][2]
              end == IF i + 1 <= Len(opt_matches)
                     THEN opt_matches[i + 1][1] ELSE Len(o) + 1
          IN Strip(Slice(o, start, end))]

\* The options sought up to the end of the block, the marker ignored.
OptsBlockToEnd(b, opt_start) == Slice(b, opt_start, Len(b) + 1)

\* opts_block = block[opt_start.start():end_of_opts]
OptsBlock(b, opt_start) ==
    LET marker == SearchMarker(b, opt_start)
        end_of_opts == IF marker # 0 THEN marker ELSE Len(b) + 1
    IN Slice(b, opt_start, end_of_opts)

\* The sentinels of the source, each a text of one lexeme.
ErrorText == << "Error parsing question text." >>
ParseError == << "Parse Error" >>
Pad == << "-" >>

\* while len(options) < 4: options.append("-")
RECURSIVE PadOptions(_)
PadOptions(options) ==
    IF Len(options) < 4 THEN PadOptions(Append(options, Pad)) ELSE options

\* The body of the loop for one block: q_obj.  The explanation, subject and
\* topic fields are left out of the record.
ParseBlock(idx, rawBlock) ==
    LET block == Strip(rawBlock)
        explanation == ExtractExplanation(block)
        correct_idx == ResolveAnswer(block, explanation)
        opt_start == SearchOptStart(block, 1)
        q_text == IF opt_start # 0 THEN Strip(Slice(block, 1, opt_start))
                  ELSE ErrorText
        options == IF opt_start # 0 THEN OptionTexts(OptsBlock(block, opt_start))
                   ELSE << ParseError, ParseError, ParseError, ParseError >>
    IN [id |-> idx + 1, text |-> q_text, options |-> PadOptions(options),
        correctAnswer |-> correct_idx]

\* The loop with ids counted from the records appended so far.
RECURSIVE ParseBlocksCounting(_, _, _, _)
ParseBlocksCounting(blocks, i, raised, n) ==
    IF i > Len(blocks) THEN <<>>
    ELSE IF i \in raised THEN ParseBlocksCounting(blocks, i + 1, raised, n)
    ELSE << ParseBlock(n, blocks[i]) >>
         \o ParseBlocksCounting(blocks, i + 1, raised, n + 1)
ParseBlocksRenumbered(blocks, i, raised) ==
    ParseBlocksCounting(blocks, i, raised, i - 1)

\* The loop with a `continue` for a block that is empty after trimming.
RECURSIVE ParseBlocksSkipEmpty(_, _, _)
ParseBlocksSkipEmpty(blocks, i, raised) ==
    IF i > Len(blocks) THEN <<>>
    ELSE (IF i \in raised \/ Strip(blocks[i]) = <<>> THEN <<>>
          ELSE << ParseBlock(i - 1, blocks[i]) >>)
         \o ParseBlocksSkipEmpty(blocks, i + 1, raised)

\* for idx, block in enumerate(blocks): the records of blocks i.. in order;
\* a block whose try body raises (its position is in raised) adds nothing.
RECURSIVE ParseBlocks(_, _, _)
ParseBlocks(blocks, i, raised) ==
    IF i > Len(blocks) THEN <<>>
    ELSE (IF i \in raised THEN <<>> ELSE << ParseBlock(i - 1, blocks[i]) >>)
         \o ParseBlocks(blocks, i + 1, raised)

parse_forum_ias(t, raised) ==
    ParseBlocks(SplitBlocks(clean_garbage_text(t)), 1, raised)

(***************************************************************************)
(* The input texts.                                                        *)
(***************************************************************************)
\* Pieces of text for clean_garbage_text: the address block whole and in
\* three pieces, a promotional line and its pieces, a line break, filler.
AddrHead == << P1Head >>
AddrMid == << SP, P1Tail, SP, P2Head >>
AddrTail == << P2Tail, "x", P3, P4, P5, P6, "HELPDESK@FORUMIAS.ACADEMY" >>
AddrFull == AddrHead \o AddrMid \o << NL >> \o AddrTail
CleanFragments ==
    { AddrHead, AddrMid, AddrTail, AddrFull,
      << "SFG" >>, << SP, "2026", "x" >>, << NL >>, << "x" >> }

CleanDocs == DocsUpTo(CleanFragments, MaxCleanFrags)

\* Pieces of text for parse_forum_ias: a question marker, stem text, white
\* space, option lines, an answer tag with its letter and one without, an
\* explanation tag and the statement of the answer.
FragQ == << NL, "Q", ".", "1", ")" >>
FragStem == << "x" >>
FragWs == << SP >>
FragOptA == << NL, "a", ")", SP, "p" >>
FragOptB == << NL, SP, "B", ".", "q" >>
FragOptBCD == << NL, "b", ")", "q", NL, "c", ")", "r", NL, "d", ".", "s" >>
FragAns == << NL, "Ans", ")", SP, "b" >>
FragAnswer == << NL, "ANSWER", ":" >>
FragExp == << NL, "Explanation", ":", SP >>
FragStmt == << "Option", SP, "D", SP, ICA >>

\* Texts of one question: a marker and a body of the pieces of a question.
BodyFragments ==
    { FragStem, FragWs, FragOptA, FragOptB, FragOptBCD, FragAns, FragAnswer,
      FragExp, FragStmt }
QuestionDocs == {FragQ \o b : b \in DocsUpTo(BodyFragments, MaxBodyFrags)}

\* Texts of several questions, some of them empty or without options.
BlockFragments == { FragQ, FragStem, FragWs, FragOptA, FragOptB, FragAns }
BlockDocs == DocsUpTo(BlockFragments, MaxBlockFrags)

(***************************************************************************)
(* Values of the variables an operation does not use.                      *)
(***************************************************************************)
NoManifest == [exists |-> FALSE, valid |-> FALSE, entries |-> <<>>]

CleanIdle == once = <<>> /\ twice = <<>>
ParseIdle == faults = {} /\ questions = <<>>
ManifestIdle ==
    /\ manifest = NoManifest /\ prevManifest = NoManifest
    /\ history = <<>>
MainIdle ==
    /\ uploadDir = FALSE /\ uploads = {} /\ content = <<>> /\ listing = {}
    /\ cur = <<>> /\ curQuestions = <<>> /\ outFiles = {} /\ skipped = {}
    /\ files_processed = 0

(***************************************************************************)
(* clean_garbage_text applied to a text, and again to its result.          *)
(***************************************************************************)
InitClean ==
    /\ pc = "clean"
    /\ text \in CleanDocs
    /\ CleanIdle /\ ParseIdle /\ ManifestIdle /\ MainIdle

CleanFirst ==
    /\ pc = "clean"
    /\ once' = clean_garbage_text(text)
    /\ pc' = "cleaned"
    /\ UNCHANGED <<text, twice, parseVars, manifestVars, mainVars>>

CleanAgain ==
    /\ pc = "cleaned"
    /\ twice' = clean_garbage_text(once)
    /\ pc' = "recleaned"
    /\ UNCHANGED <<text, once, parseVars, manifestVars, mainVars>>

NextClean == CleanFirst \/ CleanAgain

SpecClean == InitClean /\ [][NextClean]_vars

(***************************************************************************)
(* parse_forum_ias applied to a text.                                      *)
(***************************************************************************)
InitParse ==
    /\ pc = "parse"
    /\ text \in QuestionDocs
    /\ CleanIdle /\ ParseIdle /\ ManifestIdle /\ MainIdle

InitBlocks ==
    /\ pc = "parse"
    /\ text \in BlockDocs
    /\ CleanIdle /\ ParseIdle /\ ManifestIdle /\ MainIdle

\* The whole call; which try bodies raise is the environment's choice.
ParseForumIas ==
    /\ pc = "parse"
    /\ \E raised \in SUBSET (1..Len(SplitBlocks(clean_garbage_text(text)))) :
          /\ faults' = raised
          /\ questions' = parse_forum_ias(text, raised)
    /\ pc' = "parsed"
    /\ UNCHANGED <<text, cleanVars, manifestVars, mainVars>>

NextParse == ParseForumIas

\* The call on the texts of one question, and on those of several.
SpecParse == InitParse /\ [][NextParse]_vars
SpecBlocks == InitBlocks /\ [][NextParse]_vars

(***************************************************************************)
(* update_manifest                                                         *)
(***************************************************************************)
\* File names and titles are lexeme sequences too: << "gs", "-", "1", ".pdf" >>.

\* The manifest read at the start of update_manifest: [] when the file is
\* missing or json.load fails.
LoadManifest(m) == IF m.exists /\ m.valid THEN m.entries ELSE <<>>

\* The for loop: the position of the first entry with this filename, or 0.
RECURSIVE FindEntry(_, _, _)
FindEntry(entries, filename, i) ==
    IF i > Len(entries) THEN 0
    ELSE IF entries[i].filename = filename THEN i
    ELSE FindEntry(entries, filename, i + 1)

\* An update that appends without looking for the filename.
UpdateEntriesAppend(entries, filename, test_name) ==
    Append(entries, [name |-> test_name, filename |-> filename])

\* The list update_manifest dumps.
UpdateEntries(entries, filename, test_name) ==
    LET i == FindEntry(entries, filename, 1)
    IN IF i # 0 THEN [entries EXCEPT ![i].name = test_name]
       ELSE Append(entries, [name |-> test_name, filename |-> filename])

update_manifest(m, filename, test_name) ==
    [exists |-> TRUE, valid |-> TRUE,
     entries |-> UpdateEntries(LoadManifest(m), filename, test_name)]

\* The arguments of the calls of the manifest specification.
Filenames == { << "gs", ".json" >>, << "csat", ".json" >> }
TestNames == { << "gs" >>, << "GS", SP, "1" >> }

InitManifest ==
    /\ pc = "manifest"
    /\ manifest \in { NoManifest,
                      [exists |-> TRUE, valid |-> FALSE, entries |-> <<>>],
                      [exists |-> TRUE, valid |-> TRUE, entries |-> <<>>] }
    /\ prevManifest = manifest
    /\ history = <<>>
    /\ text = <<>>
    /\ CleanIdle /\ ParseIdle /\ MainIdle

UpdateManifest ==
    /\ pc = "manifest"
    /\ Len(history) < MaxCalls
    /\ \E filename \in Filenames, test_name \in TestNames :
          /\ manifest' = update_manifest(manifest, filename, test_name)
          /\ history' = Append(history, [filename |-> filename, name |-> test_name])
    /\ prevManifest' = manifest
    /\ UNCHANGED <<pc, text, cleanVars, parseVars, mainVars>>

NextManifest == UpdateManifest

SpecManifest == InitManifest /\ [][NextManifest]_vars

(***************************************************************************)
(* main                                                                    *)
(***************************************************************************)
\* f.endswith('.pdf')
EndsWithPdf(f) == Len(f) >= 1 /\ f[Len(f)] = ".pdf"

\* f.replace('.pdf', '.json')
OutName(f) == [i \in 1..Len(f) |-> IF f[i] = ".pdf" THEN ".json" ELSE f[i]]

\* f.replace('.pdf', '').replace('-', ' ').replace('_', ' ')
RECURSIVE TestTitle(_)
TestTitle(f) ==
    IF f = <<>> THEN <<>>
    ELSE (IF Head(f) = ".pdf" THEN <<>>
          ELSE IF Head(f) \in {"-", "_"} THEN << SP >>
          ELSE << Head(f) >>) \o TestTitle(Tail(f))

\* The test left out: every PDF is written and removed.
HasQuestionsAlways(qs) == TRUE

\* if questions:
HasQuestions(qs) == qs # <<>>

\* json.dump(questions, out_f) into tests/<out_name>
WriteFile(files, out_name, qs) ==
    {r \in files : r.name # out_name} \cup {[name |-> out_name, questions |-> qs]}

\* The files that may lie in uploads/ and the texts their pages give.
UploadFiles ==
    { << "gs", "-", "1", ".pdf" >>, << "csat", "_", "2", ".pdf" >>,
      << "notes", ".txt" >> }
PdfTexts ==
    { <<>>, << "x" >>, FragQ \o FragStem \o FragOptA \o FragAns,
      FragQ \o FragQ \o FragStem }

InitMain ==
    /\ pc = "main"
    /\ uploadDir \in BOOLEAN
    /\ uploads \in SUBSET UploadFiles
    /\ uploadDir = FALSE => uploads = {}
    /\ content \in [uploads -> PdfTexts]
    /\ listing = {} /\ cur = <<>> /\ curQuestions = <<>>
    /\ outFiles = {} /\ skipped = {} /\ files_processed = 0
    /\ manifest = NoManifest /\ prevManifest = NoManifest /\ history = <<>>
    /\ text = <<>>
    /\ CleanIdle /\ ParseIdle

\* if not os.path.exists(UPLOAD_DIR): os.makedirs(UPLOAD_DIR); return
MainNoUploadDir ==
    /\ pc = "main" /\ ~uploadDir
    /\ uploadDir' = TRUE
    /\ pc' = "done"
    /\ UNCHANGED <<text, cleanVars, parseVars, manifestVars, uploads, content,
                   listing, cur, curQuestions, outFiles, skipped, files_processed>>

\* files_processed = 0; for f in os.listdir(UPLOAD_DIR):
MainListUploads ==
    /\ pc = "main" /\ uploadDir
    /\ listing' = uploads
    /\ pc' = "loop"
    /\ UNCHANGED <<text, cleanVars, parseVars, manifestVars, uploadDir, uploads,
                   content, cur, curQuestions, outFiles, skipped, files_processed>>

\* An iteration for a file that is no PDF.
MainSkipFile ==
    /\ pc = "loop"
    /\ \E f \in listing :
          /\ ~EndsWithPdf(f)
          /\ listing' = listing \ {f}
    /\ UNCHANGED <<pc, text, cleanVars, parseVars, manifestVars, uploadDir,
                   uploads, content, cur, curQuestions, outFiles,
                   skipped, files_processed>>

\* The questions of a PDF of the listing; which try bodies raise is the
\* environment's choice.
QuestionsOf(f) ==
    { parse_forum_ias(content[f], raised) :
        raised \in SUBSET (1..Len(SplitBlocks(clean_garbage_text(content[f])))) }

\* An iteration for a PDF whose questions are empty: nothing is written.
MainNoQuestions ==
    /\ pc = "loop"
    /\ \E f \in listing :
          /\ EndsWithPdf(f)
          /\ \E qs \in QuestionsOf(f) : ~HasQuestions(qs)
          /\ listing' = listing \ {f}
          /\ skipped' = skipped \cup {f}
    /\ UNCHANGED <<pc, text, cleanVars, parseVars, manifestVars, uploadDir,
                   uploads, content, cur, curQuestions, outFiles,
                   files_processed>>

\* An iteration for a PDF with questions, up to `if questions:`.
MainParseFile ==
    /\ pc = "loop"
    /\ \E f \in listing :
          /\ EndsWithPdf(f)
          /\ \E qs \in QuestionsOf(f) :
                /\ HasQuestions(qs)
                /\ cur' = f /\ curQuestions' = qs
          /\ listing' = listing \ {f}
    /\ pc' = "write"
    /\ UNCHANGED <<text, cleanVars, parseVars, manifestVars, uploadDir, uploads,
                   content, outFiles, skipped, files_processed>>

\* json.dump(questions, out_f, indent=2)
MainWriteOutput ==
    /\ pc = "write"
    /\ outFiles' = WriteFile(outFiles, OutName(cur), curQuestions)
    /\ pc' = "update"
    /\ UNCHANGED <<text, cleanVars, parseVars, manifestVars, uploadDir, uploads,
                   content, listing, cur, curQuestions, skipped, files_processed>>

\* update_manifest(out_name, test_title)
MainUpdateManifest ==
    /\ pc = "update"
    /\ manifest' = update_manifest(manifest, OutName(cur), TestTitle(cur))
    /\ prevManifest' = manifest
    /\ history' = Append(history, [filename |-> OutName(cur), name |-> TestTitle(cur)])
    /\ pc' = "remove"
    /\ UNCHANGED <<text, cleanVars, parseVars, mainVars>>

\* os.remove(os.path.join(UPLOAD_DIR, f)); files_processed += 1
MainRemoveUpload ==
    /\ pc = "remove"
    /\ uploads' = uploads \ {cur}
    /\ files_processed' = files_processed + 1
    /\ pc' = "loop"
    /\ UNCHANGED <<text, cleanVars, parseVars, manifestVars, uploadDir, content,
                   listing, cur, curQuestions, outFiles, skipped>>

\* The loop is over.
MainDone ==
    /\ pc = "loop" /\ listing = {}
    /\ pc' = "done"
    /\ UNCHANGED <<text, cleanVars, parseVars, manifestVars, mainVars>>

Next ==
    \/ MainNoUploadDir
    \/ MainListUploads
    \/ MainSkipFile
    \/ MainNoQuestions
    \/ MainParseFile
    \/ MainWriteOutput
    \/ MainUpdateManifest
    \/ MainRemoveUpload
    \/ MainDone

Spec == InitMain /\ [][Next]_vars

(***************************************************************************)
(* Properties of parse_forum_ias, stated over the text and the list of     *)
(* questions of a finished call.  What a block "contains" is said here     *)
(* with quantifiers over its positions, not with the search operators of   *)
(* the model.                                                              *)
(***************************************************************************)
Parsed == pc = "parsed"

\* The blocks of the text and the trimmed block at position i (1-based).
Blocks == SplitBlocks(clean_garbage_text(text))
Block(i) == Strip(Blocks[i])

\* The positions whose try body did not raise, and the record of one.
Kept == {i \in 1..Len(Blocks) : i \notin faults}
HasRecord(i) == \E k \in 1..Len(questions) : questions[k].id = i
RecordOf(i) == questions[CHOOSE k \in 1..Len(questions) : questions[k].id = i]

\* Only white space lies strictly between positions i and j of b.
WsBetween(b, i, j) == \A m \in (i + 1)..(j - 1) : IsWs(b[m])

\* The least element of a non-empty set of numbers.
Least(S) == CHOOSE x \in S : \A y \in S : x <= y

\* a -> 0, b -> 1, c -> 2, d -> 3, in either case.
LetterIndex(l) ==
    CHOOSE n \in 0..3 : << "a", "b", "c", "d" >>[n + 1] = l
                        \/ << "A", "B", "C", "D" >>[n + 1] = l

\* The positions of the explanation tags of b, and its explanation text:
\* what follows the first tag, trimmed.
ExpTags(b) ==
    {i \in 1..(Len(b) - 1) :
        Lower(b[i]) \in {"exp", "explanation"} /\ b[i + 1] \in {")", ":"}}
ExplanationText(b) ==
    IF ExpTags(b) = {} THEN <<>>
    ELSE Strip(SubSeq(b, Least(ExpTags(b)) + 2, Len(b)))

\* The positions in e of a letter a-d followed by white space and "is the
\* correct answer".
Statements(e) ==
    {p \in 1..Len(e) :
        /\ IsLetterAD(e[p])
        /\ \E q \in (p + 2)..Len(e) : Lower(e[q]) = ICA /\ WsBetween(e, p, q)}

\* Those at the very start of e, a leading "Option" allowed.
LeadingStatements(e) ==
    {p \in Statements(e) :
        p = 1 \/ (Lower(e[1]) = "option" /\ WsBetween(e, 1, p))}

\* The positions of the answer tags of b that a letter a-d follows, and the
\* letter that follows the tag at i.
AnswerTags(b) ==
    {i \in 1..(Len(b) - 1) :
        /\ Lower(b[i]) \in {"ans", "answer"} /\ b[i + 1] \in {")", ":"}
        /\ \E j \in (i + 2)..Len(b) :
              IsLetterAD(FirstChar(b[j])) /\ WsBetween(b, i + 1, j)}
TagLetter(b, i) ==
    FirstChar(b[Least({j \in (i + 2)..Len(b) : ~IsWs(b[j])})])

\* C1: every record of the returned list has exactly four options, also
\* when more than four option labels are found in the option region.
C1_OptionsAlwaysFour ==
    Parsed => \A k \in 1..Len(questions) : Len(questions[k].options) = 4

\* C2 as stated: whenever the explanation of a block contains a statement
\* "<letter> is the correct answer", wherever in the explanation it stands,
\* correctAnswer is the index of such a letter.
C2_StatementAnywhereWins ==
    Parsed =>
      \A i \in Kept :
        LET e == ExplanationText(Block(i))
        IN Statements(e) # {} =>
             /\ HasRecord(i)
             /\ \E p \in Statements(e) :
                   RecordOf(i).correctAnswer = LetterIndex(e[p])

\* C2 as amended: when the explanation of a block begins with the statement
\* (after an optional "Option"), correctAnswer is the index of its letter,
\* whatever an answer tag of the block names; otherwise the first answer
\* tag of the block that a letter follows decides.
C2_LeadingStatementWins ==
    Parsed =>
      \A i \in Kept :
        LET b == Block(i)
            e == ExplanationText(b)
        IN /\ HasRecord(i)
           /\ \A p \in LeadingStatements(e) :
                 RecordOf(i).correctAnswer = LetterIndex(e[p])
           /\ (LeadingStatements(e) = {} /\ AnswerTags(b) # {}) =>
                 RecordOf(i).correctAnswer =
                     LetterIndex(TagLetter(b, Least(AnswerTags(b))))

\* A block whose explanation begins with "Option D is the correct answer"
\* and whose answer tag names b got correctAnswer 3.
C2_Witness ==
    /\ Parsed
    /\ \E i \in Kept :
          LET b == Block(i)
              e == ExplanationText(b)
          IN /\ \E p \in LeadingStatements(e) : e[p] = "D"
             /\ \E t \in AnswerTags(b) : TagLetter(b, t) = "b"
             /\ HasRecord(i) /\ RecordOf(i).correctAnswer = 3

\* C3 as stated: correctAnswer is one of -1, 0, 1, 2, 3, and it is -1
\* exactly when the block holds neither a statement of the answer in its
\* explanation nor an answer tag followed by a letter.
C3_UnresolvedIffNothingPresent ==
    Parsed =>
      \A i \in Kept :
        LET b == Block(i)
        IN /\ HasRecord(i)
           /\ RecordOf(i).correctAnswer \in {-1, 0, 1, 2, 3}
           /\ RecordOf(i).correctAnswer = -1 <=>
                 (Statements(ExplanationText(b)) = {} /\ AnswerTags(b) = {})

\* C3 as amended: correctAnswer is one of -1, 0, 1, 2, 3; it is -1 exactly
\* when the explanation does not begin with the statement and no answer tag
\* followed by a letter is in the block; and a block whose only source is a
\* tag gets the index of the tag's letter when all its tags name one letter.
C3_UnresolvedIffNoLeadingStatementAndNoTag ==
    Parsed =>
      \A i \in Kept :
        LET b == Block(i)
            e == ExplanationText(b)
        IN /\ HasRecord(i)
           /\ RecordOf(i).correctAnswer \in {-1, 0, 1, 2, 3}
           /\ RecordOf(i).correctAnswer = -1 <=>
                 (LeadingStatements(e) = {} /\ AnswerTags(b) = {})
           /\ \A n \in 0..3 :
                 ( /\ LeadingStatements(e) = {}
                   /\ AnswerTags(b) # {}
                   /\ \A t \in AnswerTags(b) : LetterIndex(TagLetter(b, t)) = n )
                 => RecordOf(i).correctAnswer = n

\* A block whose explanation holds the statement for D, not at its start,
\* and whose answer tag names b got correctAnswer 1.
C3_Witness ==
    /\ Parsed
    /\ \E i \in Kept :
          LET b == Block(i)
              e == ExplanationText(b)
          IN /\ Statements(e) # {} /\ LeadingStatements(e) = {}
             /\ \E t \in AnswerTags(b) : TagLetter(b, t) = "b"
             /\ HasRecord(i) /\ RecordOf(i).correctAnswer = 1

\* C4: the records are in block order, the record of the block at position
\* i (1-based here, so 0-based i - 1) has id i and is the record built from
\* that block, and a block has no record only when its try body raised: the
\* list is never longer than the list of blocks, and the blocks after one
\* that raised keep the ids of their positions.
C4_IdsArePositions ==
    Parsed =>
      /\ Len(questions) = Cardinality(Kept)
      /\ Len(questions) <= Len(Blocks)
      /\ \A k \in 1..(Len(questions) - 1) : questions[k].id < questions[k + 1].id
      /\ \A i \in 1..Len(Blocks) : HasRecord(i) <=> i \in Kept
      /\ \A i \in Kept :
            /\ RecordOf(i).id = (i - 1) + 1
            /\ RecordOf(i) = ParseBlock(i - 1, Blocks[i])

\* Three blocks of which the first raised: the records have ids 2 and 3.
C4_Witness ==
    /\ Parsed
    /\ Len(Blocks) = 3 /\ faults = {1}
    /\ Len(questions) = 2
    /\ questions[1].id = 2 /\ questions[2].id = 3

\* C5 as stated: a chunk that is empty after trimming is dropped, so with no
\* exception there are as many records as non-empty chunks and the ids are
\* consecutive from 1.
C5_EmptyChunkDropped ==
    (Parsed /\ faults = {}) =>
      /\ Len(questions) = Cardinality({i \in 1..Len(Blocks) : Block(i) # <<>>})
      /\ \A k \in 1..Len(questions) : questions[k].id = k

\* C5 as amended: a chunk that is empty after trimming is kept: it gets the
\* record of a block without options (the error text, four "Parse Error"
\* options, correctAnswer -1) under the id of its position, and the next
\* block gets the next id.
C5_EmptyChunkKept ==
    Parsed =>
      \A i \in Kept :
        Block(i) = <<>> =>
          /\ HasRecord(i)
          /\ RecordOf(i) =
               [id |-> i, text |-> << "Error parsing question text." >>,
                options |-> [n \in 1..4 |-> << "Parse Error" >>],
                correctAnswer |-> -1]
          /\ (i + 1) \in Kept => HasRecord(i + 1)

\* A chunk of white space only, followed by a chunk with text: records 1
\* and 2.
C5_Witness ==
    /\ Parsed /\ faults = {}
    /\ \E i \in 1..(Len(Blocks) - 1) :
          /\ Blocks[i] # <<>> /\ Block(i) = <<>>
          /\ Block(i + 1) # <<>>
          /\ HasRecord(i) /\ RecordOf(i).text = << "Error parsing question text." >>
          /\ HasRecord(i + 1)

\* The positions of the letters of the option labels "a)" / "a." of b that
\* stand at the start of a line: a line break and white space only lie
\* before the letter.
AtLineStart(b, k) == \E n \in 1..(k - 1) : b[n] = NL /\ WsBetween(b, n, k)
ALabels(b) ==
    {k \in 1..(Len(b) - 1) :
        b[k] = "a" /\ b[k + 1] \in {")", "."} /\ AtLineStart(b, k)}

\* C7 as stated: a block with no option label a at a line start gets one
\* record with the text "Error parsing question." and four identical
\* options.
C7_SentinelOfTheSpec ==
    Parsed =>
      \A i \in Kept :
        ALabels(Block(i)) = {} =>
          /\ HasRecord(i)
          /\ RecordOf(i).text = << "Error parsing question." >>
          /\ \A n \in 1..4 : RecordOf(i).options[n] = RecordOf(i).options[1]

\* C7 as amended: a block with no option label a at a line start gets one
\* record with the text "Error parsing question text." and the options
\* "Parse Error" four times, and every later block has its record too, with
\* its own text and first option when it has such a label.
C7_SentinelOfTheSource ==
    Parsed =>
      \A i \in Kept :
        ALabels(Block(i)) = {} =>
          /\ Cardinality({k \in 1..Len(questions) : questions[k].id = i}) = 1
          /\ RecordOf(i).text = << "Error parsing question text." >>
          /\ RecordOf(i).options = [n \in 1..4 |-> << "Parse Error" >>]
          /\ \A j \in Kept :
                (j > i) =>
                  /\ HasRecord(j)
                  /\ ALabels(Block(j)) # {} =>
                       /\ RecordOf(j).text =
                            Strip(SubSeq(Block(j), 1, Least(ALabels(Block(j))) - 1))
                       /\ RecordOf(j).options[1] # << "Parse Error" >>

\* A block with an option label B. but no label a got the error record,
\* and the block after it, with stem x and option a, its own.
C7_Witness ==
    /\ Parsed /\ faults = {}
    /\ \E i \in 1..(Len(Blocks) - 1) :
          /\ ALabels(Block(i)) = {}
          /\ \E k \in 1..Len(Block(i)) : Block(i)[k] = "B"
          /\ RecordOf(i).text = << "Error parsing question text." >>
          /\ ALabels(Block(i + 1)) # {}
          /\ RecordOf(i + 1).text = << "x" >>
          /\ RecordOf(i + 1).options[1] = << "p" >>

\* The option region of a block with a label a: it starts at the first such
\* label and ends before the first line after it that begins with "Ans" or
\* "Exp" (in any case), or at the end of the block.
Markers(b) ==
    {j \in Least(ALabels(b))..Len(b) :
        /\ b[j] = NL
        /\ \E q \in (j + 1)..Len(b) :
              /\ WsBetween(b, j, q)
              /\ Lower(b[q]) \in {"ans", "answer", "exp", "explanation"}}
RegionEnd(b) == IF Markers(b) = {} THEN Len(b) + 1 ELSE Least(Markers(b))

\* The positions of the letters of the option labels of the region, and
\* the n-th of them from the left.
RegionLabels(b) ==
    {k \in Least(ALabels(b))..(RegionEnd(b) - 1) :
        /\ IsLetterAD(b[k]) /\ k + 1 <= Len(b) /\ b[k + 1] \in {")", "."}
        /\ AtLineStart(b, k)}
NthLabel(b, n) ==
    CHOOSE k \in RegionLabels(b) :
        Cardinality({m \in RegionLabels(b) : m < k}) = n - 1

\* C8: when the option region of a block holds k < 4 option labels, the
\* options are the k texts in the order of the source, each from after its
\* label to before the next label or the end of the region (trimmed), and
\* then 4 - k times "-".
C8_PaddedInSourceOrder ==
    Parsed =>
      \A i \in Kept :
        LET b == Block(i)
        IN (ALabels(b) # {} /\ Cardinality(RegionLabels(b)) < 4) =>
             LET k == Cardinality(RegionLabels(b))
             IN /\ HasRecord(i)
                /\ RecordOf(i).options =
                     [n \in 1..4 |->
                        IF n <= k
                        THEN Strip(SubSeq(b, NthLabel(b, n) + 2,
                                   (IF n < k THEN NthLabel(b, n + 1)
                                    ELSE RegionEnd(b)) - 1))
                        ELSE << "-" >>]

\* A block with the options a) p and B. q and then an answer tag: the
\* options are p, q, "-", "-".
C8_Witness ==
    /\ Parsed
    /\ \E i \in Kept :
          /\ ALabels(Block(i)) # {}
          /\ Cardinality(RegionLabels(Block(i))) = 2
          /\ Markers(Block(i)) # {}
          /\ RecordOf(i).options = << << "p" >>, << "q" >>, << "-" >>, << "-" >> >>
(***************************************************************************)
(* Properties of clean_garbage_text, update_manifest and main.             *)
(***************************************************************************)
\* C6: cleaning is idempotent: cleaning the cleaned text changes nothing,
\* also when the removal of an address block joins the text around it into
\* a new address block.
C6_CleanIsIdempotent == pc = "recleaned" => twice = once

\* The entries update_manifest found, the call it served and the positions
\* of the entries it found for the filename of the call.
OldEntries ==
    IF prevManifest.exists /\ prevManifest.valid THEN prevManifest.entries
    ELSE <<>>
LastCall == history[Len(history)]
Hits == {i \in 1..Len(OldEntries) : OldEntries[i].filename = LastCall.filename}

\* C9: a call of update_manifest for a filename the manifest has an entry
\* for changes the name of that entry and nothing else, and otherwise adds
\* one entry at the end; so, after any calls, the manifest has one entry
\* for each filename of a call, and none else, with the name of the latest
\* call for that filename.
C9_ManifestUpdatedInPlace ==
    (pc = "manifest" /\ history # <<>>) =>
      LET new == manifest.entries
      IN /\ manifest.exists /\ manifest.valid
         /\ IF Hits # {}
            THEN /\ Len(new) = Len(OldEntries)
                 /\ \A i \in 1..Len(new) :
                       /\ new[i].filename = OldEntries[i].filename
                       /\ new[i].name = IF i = Least(Hits) THEN LastCall.name
                                        ELSE OldEntries[i].name
            ELSE new = OldEntries \o
                       << [name |-> LastCall.name, filename |-> LastCall.filename] >>
         /\ \A i, j \in 1..Len(new) :
               new[i].filename = new[j].filename => i = j
         /\ \A c \in 1..Len(history) :
               \E i \in 1..Len(new) : new[i].filename = history[c].filename
         /\ \A i \in 1..Len(new) :
               LET of == {c \in 1..Len(history) :
                            history[c].filename = new[i].filename}
               IN /\ of # {}
                  /\ new[i].name =
                       history[CHOOSE c \in of : \A d \in of : d <= c].name

\* A manifest of two entries whose first entry was renamed by the last
\* call, the second entry between the two calls for the first.
C9_Witness ==
    /\ pc = "manifest" /\ Len(history) >= 3
    /\ Len(OldEntries) = 2 /\ Len(manifest.entries) = 2
    /\ Hits = {1}
    /\ OldEntries[1].name # LastCall.name
    /\ manifest.entries[1].name = LastCall.name
    /\ manifest.entries[2] = OldEntries[2]

\* The files main found in uploads/ and those it has removed.
FoundFiles == DOMAIN content
Removed == {f \in FoundFiles : f \notin uploads}
HasEntry(out_name) ==
    /\ manifest.exists /\ manifest.valid
    /\ \E i \in 1..Len(manifest.entries) :
          manifest.entries[i].filename = out_name

\* C10: a file is removed from uploads/ only when it is a PDF whose
\* questions, not empty, are in tests/ and whose name is in the manifest; a
\* PDF with an empty question list stays in uploads/, has no file in
\* tests/ and no entry in the manifest, and is not counted; the count is
\* that of the removed files; and when main is done every PDF it found is
\* either removed or one of those with no questions.
C10_RemovedOnlyAfterWritten ==
    /\ \A f \in Removed :
          /\ EndsWithPdf(f)
          /\ \E r \in outFiles : r.name = OutName(f) /\ r.questions # <<>>
          /\ HasEntry(OutName(f))
    /\ \A f \in skipped :
          /\ f \in uploads
          /\ \A r \in outFiles : r.name # OutName(f)
          /\ ~HasEntry(OutName(f))
    /\ files_processed = Cardinality(Removed)
    /\ pc = "done" =>
          \A f \in FoundFiles : EndsWithPdf(f) => (f \in Removed \/ f \in skipped)

\* main is done: one PDF was removed after its output and entry were
\* written, one PDF had no questions and is still there.
C10_Witness ==
    /\ pc = "done"
    /\ files_processed = 1
    /\ \E f \in Removed : HasEntry(OutName(f))
    /\ \E f \in skipped : f \in uploads
====
